---- MODULE Spec2Model ----
(***************************************************************************)
(* A model of the three utilities of the repository:                       *)
(*   - Aggregator      (src/process/aggregator.ts)                         *)
(*   - CircuitBreaker  (src/network/circuit-breaker.ts)                    *)
(*   - WriteBuffer     (src/aws/dynamodb/write-buffer.ts)                  *)
(* The three do not interact; each has its own specification over the      *)
(* shared variable tuple, the other two staying in their initial state.    *)
(***************************************************************************)
EXTENDS Integers, Sequences, FiniteSets, TLC

(***************************************************************************)
(* Bounds of the model.                                                    *)
(***************************************************************************)
\* coordinates of the blocks are 0..MaxCoord
MaxCoord == 3
\* an input of aggregate holds at most MaxItems items
MaxItems == 2
\* coordinates and input length of the repeated-call specification
RepeatMaxCoord == 2
RepeatMaxItems == 2

\* CircuitBreaker: invocations in flight at once, and the clock runs 0..MaxTime
MaxInvocations == 2
MaxTime == 3
\* WriteBuffer: items put in one behaviour, and batchWriteItem calls in flight at once
MaxPuts == 10
MaxPending == 2

(***************************************************************************)
(* Constructor arguments of the modelled instances.                        *)
(***************************************************************************)
\* CircuitBreaker: the timeout, in clock ticks
timeout == 2
\* CircuitBreaker: the retention window and the threshold are fields of the
\* instance (the variables retentionSize and threshold); the instances are
\* CircuitBreaker(2, 4, 0.5) and CircuitBreaker(2, 10, 1)
\* WriteBuffer: the batch size
maxWriteBatchSize == 2

\* the payloads an item may carry (equal payloads on different items allowed)
Payloads == {"a", "b"}

VARIABLES
    \* ---- Aggregator -----------------------------------------------------
    aggFailSizes,   \* aggregationFunction throws on a list of one of these lengths
    fmtFailStarts,  \* itemPostProcessor throws on a block starting at one of these
    items,          \* the argument of the running (or last) aggregate call
    pc,             \* "idle" | "called" | "scan" | "returned" | "threw"
    output,         \* aggregate: const output
    nodeValues,     \* aggregate: const nodeValues (a Map, in insertion order)
    redBlackTree,   \* aggregate: const redBlackTree
    iterator,       \* aggregate: const iterator (position in the ascending keys)
    ret,            \* what the caller of aggregate received
    calls,          \* the callback invocations of the running call, in order
    phase,          \* repeated calls: "single" | "first" | "between" | "repeat" | "done"
    refItems,       \* repeated calls: the input of the first call
    refRet,         \* repeated calls: what the first call gave the caller
    failedBefore    \* repeated calls: an earlier call on the instance threw

aggVars == <<aggFailSizes, fmtFailStarts, items, pc, output, nodeValues,
             redBlackTree, iterator, ret, calls, phase, refItems, refRet,
             failedBefore>>

VARIABLES
    \* ---- CircuitBreaker -------------------------------------------------
    retentionSize,        \* this.retentionSize
    threshold,            \* this.threshold, a double (see Double below)
    holdInvocations,      \* this.holdInvocations
    state,                \* this.state: "Open" | "HalfOpen" | "Closed"
    failureRetention,     \* this.failureRetention: "null" | "failed" | "ok" each
    retentionFailureRate, \* this.retentionFailureRate, a double (see Double below)
    timeoutEnd,           \* this.timeoutEnd
    now,                  \* (new Date()).getTime()
    invocations           \* the invoke calls: where each stands

cbVars == <<retentionSize, threshold, holdInvocations, state, failureRetention, retentionFailureRate,
            timeoutEnd, now, invocations>>

VARIABLES
    \* ---- WriteBuffer ----------------------------------------------------
    buffer,         \* this.buffer
    pending,        \* the batchWriteItem calls whose callback has not run yet
    putCount,       \* how many items were passed to put so far (items are 1, 2, ...)
    written,        \* the items of the batchWriteItem calls that succeeded
    largestBatch,   \* the largest number of items any batchWriteItem call held
    onFlushCalls,   \* how often an onFlush callback was called
    lastError       \* whether the last completed batchWriteItem call failed

wbVars == <<buffer, pending, putCount, written, largestBatch, onFlushCalls, lastError>>

vars == <<aggVars, cbVars, wbVars>>

(***************************************************************************)
(* Generic helpers.                                                        *)
(***************************************************************************)
Min(S) == CHOOSE x \in S : \A y \in S : x <= y

RECURSIVE SortedKeys(_)
\* the keys of the tree in the ascending order its iterator walks them
SortedKeys(S) == IF S = {} THEN <<>> ELSE <<Min(S)>> \o SortedKeys(S \ {Min(S)})

\* a bug: a new key goes to the front of the map
MapSetFirst(m, k, v) ==
    IF \E j \in 1..Len(m) : m[j][1] = k
    THEN [j \in 1..Len(m) |-> IF m[j][1] = k THEN <<k, v>> ELSE m[j]]
    ELSE <<<<k, v>>>> \o m

\* Map.prototype.set on an insertion-ordered map held as a sequence of <<key, value>>
MapSet(m, k, v) ==
    IF \E j \in 1..Len(m) : m[j][1] = k
    THEN [j \in 1..Len(m) |-> IF m[j][1] = k THEN <<k, v>> ELSE m[j]]
    ELSE Append(m, <<k, v>>)

\* Map.prototype.delete
MapDelete(m, k) == SelectSeq(m, LAMBDA e : e[1] # k)

\* Array.from(map.values())
MapValues(m) == [j \in 1..Len(m) |-> m[j][2]]

\* the keys of the map
MapKeys(m) == {m[j][1] : j \in 1..Len(m)}

(***************************************************************************)
(* Aggregator: the caller's callbacks.                                     *)
(***************************************************************************)
\* an item is <<start, end, payload>>; the pre-processor turns it into a Block
itemPreProcessor(item) == [start |-> item[1], end |-> item[2], value |-> item[3]]

\* the aggregation function concatenates the payload list ...
aggregationFunction(values) == values
\* ... and throws on the lists this instance's function rejects
aggregationThrows(values) == Len(values) \in aggFailSizes

\* the post-processor renames the fields of the block ...
itemPostProcessor(block) == [from |-> block.start, to |-> block.end, agg |-> block.value]
\* ... and throws on the blocks this instance's function rejects
postProcessorThrows(block) == block.start \in fmtFailStarts

(***************************************************************************)
(* Aggregator: the tree.                                                   *)
(***************************************************************************)
emptyNodeValue == [start |-> <<>>, end |-> <<>>]

\* the tree as a function from its keys to the node values
EmptyTree == [k \in {} |-> emptyNodeValue]

TreePut(tree, key, nodeValue) ==
    [k \in (DOMAIN tree) \cup {key} |-> IF k = key THEN nodeValue ELSE tree[k]]

\* a bug: the node is made anew each time, what it held is dropped
pushValueToFreshNode(tree, key, value, property) ==
    TreePut(tree, key, IF property = "start"
                       THEN [emptyNodeValue EXCEPT !.start = <<value>>]
                       ELSE [emptyNodeValue EXCEPT !.end = <<value>>])

pushValueToNode(tree, key, value, property) ==
    LET nodeValue == IF key \in DOMAIN tree THEN tree[key] ELSE emptyNodeValue
        pushed == IF property = "start"
                  THEN [nodeValue EXCEPT !.start = Append(@, value)]
                  ELSE [nodeValue EXCEPT !.end = Append(@, value)]
    IN  TreePut(tree, key, pushed)

\* a bug: every item gets the same id
blockIdSame(n) == 0

\* the unique id of an item: its ordinal position, from items.entries()
blockId(n) == n - 1

RECURSIVE createFrom(_, _, _)
\* the for loop of createRedBlackTree from position n (ordinal i = n - 1)
createFrom(tree, its, n) ==
    IF n > Len(its) THEN tree
    ELSE LET block == itemPreProcessor(its[n])
             i == blockId(n)
             t1 == pushValueToNode(tree, block.start, <<i, block.value>>, "start")
             t2 == pushValueToNode(t1, block.end, i, "end")
         IN  createFrom(t2, its, n + 1)

createRedBlackTree(its) == createFrom(EmptyTree, its, 1)

\* iterator.hasNext / iterator.key over the ascending keys
treeKeys == SortedKeys(DOMAIN redBlackTree)
hasNext == iterator < Len(treeKeys)
iteratorKey(pos) == treeKeys[pos]

\* a bug: the arrivals of a node overwrite each other, the last one staying
applyStartsLast(m, starts) ==
    IF starts = <<>> THEN m
    ELSE MapSet(m, starts[Len(starts)][1], starts[Len(starts)][2])

RECURSIVE applyStarts(_, _)
\* iterator.value.start.forEach(val => nodeValues.set(key, val[key]))
applyStarts(m, starts) ==
    IF starts = <<>> THEN m
    ELSE applyStarts(MapSet(m, Head(starts)[1], Head(starts)[2]), Tail(starts))

\* a bug: departures are never removed from the active map
applyEndsNone(m, ends) == m

RECURSIVE applyEnds(_, _)
\* iterator.value.end.forEach(val => nodeValues.delete(val))
applyEnds(m, ends) ==
    IF ends = <<>> THEN m ELSE applyEnds(MapDelete(m, Head(ends)), Tail(ends))

\* a bug: the departures of a node are applied before its arrivals
afterNodeEndsFirst(m, node) == applyStarts(applyEnds(m, node.end), node.start)

\* the active map after the arrivals and then the departures of a node
afterNode(m, node) == applyEnds(applyStarts(m, node.start), node.end)

(***************************************************************************)
(* Aggregator: inputs.                                                     *)
(***************************************************************************)
RECURSIVE SeqsUpTo(_, _)
SeqsUpTo(S, n) ==
    IF n = 0 THEN {<<>>}
    ELSE LET shorter == SeqsUpTo(S, n - 1)
         IN  shorter \cup {Append(s, x) : s \in {t \in shorter : Len(t) = n - 1}, x \in S}

\* every block over the coordinates, degenerate and inverted ones included
AllItems == (0..MaxCoord) \X (0..MaxCoord) \X Payloads
Inputs == SeqsUpTo(AllItems, MaxItems)

\* the inputs of the repeated-call specification: well-formed blocks
RepeatItems == {it \in (0..RepeatMaxCoord) \X (0..RepeatMaxCoord) \X {"a"} : it[1] < it[2]}
RepeatInputs == SeqsUpTo(RepeatItems, RepeatMaxItems)

\* the callbacks an instance may be constructed with: ones that never throw, and
\* ones that throw on a list of two payloads and on a block starting at 1
CallbackConfigs == {<<{}, {}>>, <<{2}, {1}>>}

NoRet == [kind |-> "none", value |-> <<>>]

(***************************************************************************)
(* Aggregator: the operations.                                             *)
(***************************************************************************)
\* a bug: the output array outlives the call
StaleOutput == output

\* a bug: the active map outlives the call
StaleNodeValues == nodeValues

\* the fresh locals of a call
NewOutput == <<>>
NewNodeValues == <<>>

\* aggregate(its), up to the first test of the while loop
Enter(its) ==
    /\ items' = its
    /\ output' = NewOutput
    /\ nodeValues' = NewNodeValues
    /\ redBlackTree' = createRedBlackTree(its)
    /\ iterator' = 1
    /\ calls' = <<>>
    /\ ret' = NoRet
    /\ pc' = "scan"
    /\ UNCHANGED <<aggFailSizes, fmtFailStarts, refItems, refRet, failedBefore>>
    /\ UNCHANGED <<cbVars, wbVars>>

\* a call of aggregate on the input the behaviour started with
aggregateEnter ==
    /\ pc = "called"
    /\ Enter(items)
    /\ UNCHANGED phase

\* repeated calls: a call of aggregate on any input (the first one, and the one
\* made between the first and its repetition)
aggregateAny ==
    /\ \/ phase = "first" /\ pc = "idle"
       \/ phase = "between" /\ pc \in {"returned", "threw"}
    /\ \E its \in RepeatInputs : Enter(its)
    /\ phase' = IF phase = "first" THEN "between" ELSE "repeat"

\* repeated calls: the first call's input again
aggregateRepeat ==
    /\ phase = "repeat"
    /\ pc \in {"returned", "threw"}
    /\ Enter(refItems)
    /\ phase' = "done"

\* the caller keeps what its first call on the instance gave it
Remember(given) ==
    IF phase = "between"
    THEN refItems' = items /\ refRet' = given
    ELSE UNCHANGED <<refItems, refRet>>

\* what a failing callback makes of the call: the exception reaches the caller
Propagate(log) ==
    /\ calls' = log
    /\ pc' = "threw"
    /\ ret' = [kind |-> "error", value |-> <<>>]
    /\ failedBefore' = TRUE
    /\ Remember([kind |-> "error", value |-> <<>>])
    /\ UNCHANGED output

\* a bug: spans with an empty active set are not skipped
skipSpanNever(active) == FALSE

\* if (nodeValues.size === 0) continue
skipSpan(active) == Len(active) = 0

\* a bug: the span starts at the key before the one just processed
spanStartPrevious(pos) == iteratorKey(IF pos > 1 THEN pos - 1 ELSE pos)

\* const start = iterator.key, read before iterator.next()
spanStart(pos) == iteratorKey(pos)

\* a bug: the end of the span is read before the iterator advances
spanEndSame(pos) == iteratorKey(pos)

\* end: iterator.key, read after iterator.next()
spanEnd(pos) == iteratorKey(pos + 1)

\* one iteration of the while loop
scanStep ==
    /\ pc = "scan"
    /\ hasNext
    /\ LET start == iteratorKey(iterator)
           active == afterNode(nodeValues, redBlackTree[start])
           values == MapValues(active)
           block == [start |-> spanStart(iterator), end |-> spanEnd(iterator),
                     value |-> aggregationFunction(values)]
           aggCall == [fn |-> "aggregationFunction", arg |-> values,
                       ids |-> MapKeys(active), threw |-> aggregationThrows(values)]
           fmtCall == [fn |-> "itemPostProcessor", arg |-> block,
                       ids |-> MapKeys(active), threw |-> postProcessorThrows(block)]
       IN  /\ nodeValues' = active
           /\ iterator' = iterator + 1
           /\ IF skipSpan(active)
              THEN UNCHANGED <<output, calls, pc, ret, refItems, refRet, failedBefore>>
              ELSE IF aggregationThrows(values)
              THEN Propagate(Append(calls, aggCall))
              ELSE IF postProcessorThrows(block)
              THEN Propagate(calls \o <<aggCall, fmtCall>>)
              ELSE /\ output' = Append(output, itemPostProcessor(block))
                   /\ calls' = calls \o <<aggCall, fmtCall>>
                   /\ UNCHANGED <<pc, ret, refItems, refRet, failedBefore>>
    /\ UNCHANGED <<aggFailSizes, fmtFailStarts, items, redBlackTree, phase>>
    /\ UNCHANGED <<cbVars, wbVars>>

\* the end of the loop: return output
aggregateReturn ==
    /\ pc = "scan"
    /\ ~hasNext
    /\ pc' = "returned"
    /\ ret' = [kind |-> "value", value |-> output]
    /\ Remember([kind |-> "value", value |-> output])
    /\ UNCHANGED <<aggFailSizes, fmtFailStarts, items, output, nodeValues,
                   redBlackTree, iterator, calls, phase, failedBefore>>
    /\ UNCHANGED <<cbVars, wbVars>>

(***************************************************************************)
(* CircuitBreaker.                                                         *)
(***************************************************************************)
NoInvocation == [pc |-> "none", wake |-> 0, ran |-> 0]

\* new Array(retentionSize).fill(null)
nullRetention == [j \in 1..retentionSize |-> "null"]

remainingTimeoutDuration == timeoutEnd - now

\* a bug: the timeout always counts as elapsed
timeoutElapsedAlways == TRUE

\* if (this.remainingTimeoutDuration() <= 0)
timeoutElapsed == remainingTimeoutDuration <= 0

\* the state after the first test of invoke: halfOpen() once the timeout is over
stateAfterCheck == IF state = "Open" /\ timeoutElapsed THEN "HalfOpen" ELSE state

\* a bug: an open breaker rejects whatever holdInvocations says
rejectsWhenOpenAlways == TRUE

\* ... && !this.holdInvocations
rejectsWhenOpen == ~holdInvocations

\* invoke(callback), up to its first await or to the throw; calls are made
\* until the clock reads MaxTime
invoke(i) ==
    /\ invocations[i].pc \in {"none", "resolved", "rejectedOpen", "rejectedCallback"}
    /\ now <= MaxTime
    /\ IF state = "Open"
       THEN IF stateAfterCheck = "Open" /\ rejectsWhenOpen
            THEN \* throw Error('Circuit breaker is open')
                 /\ invocations' = [invocations EXCEPT ![i] =
                                      [pc |-> "rejectedOpen", wake |-> 0, ran |-> 0]]
                 /\ state' = stateAfterCheck
            ELSE \* await new Promise(resolve => setTimeout(resolve, remaining))
                 /\ invocations' = [invocations EXCEPT ![i] =
                       [pc |-> "held",
                        wake |-> IF remainingTimeoutDuration > 0 THEN timeoutEnd ELSE now,
                        ran |-> 0]]
                 /\ state' = stateAfterCheck
       ELSE \* callback() is called at once
            /\ invocations' = [invocations EXCEPT ![i] =
                                 [pc |-> "calling", wake |-> 0, ran |-> 1]]
            /\ state' = state
    /\ UNCHANGED <<retentionSize, threshold, holdInvocations, failureRetention,
                   retentionFailureRate, timeoutEnd, now>>
    /\ UNCHANGED <<aggVars, wbVars>>

\* the timer of a held invocation fires: halfOpen(), then callback() is called
timerFires(i) ==
    /\ invocations[i].pc = "held"
    /\ now >= invocations[i].wake
    /\ state' = "HalfOpen"
    /\ invocations' = [invocations EXCEPT ![i] =
                         [pc |-> "calling", wake |-> 0, ran |-> invocations[i].ran + 1]]
    /\ UNCHANGED <<retentionSize, threshold, holdInvocations, failureRetention,
                   retentionFailureRate, timeoutEnd, now>>
    /\ UNCHANGED <<aggVars, wbVars>>

(***************************************************************************)
(* The doubles of update.  Every value the failure rate takes is a sum and *)
(* difference of copies of the double 1 / retentionSize, rounded to a      *)
(* double after each operation.  In units of 2^-56 that double is          *)
(*   retentionSize = 4  : 2^54, and every multiple of it up to 1 is a      *)
(*                        double: the arithmetic is exact;                 *)
(*   retentionSize = 10 : 0x1999999999999A = (2^56 + 4) / 10, which is     *)
(*                        0.4 units above the real 1 / 10.                 *)
(* A double x is written [k, e], meaning  x = k * (1 / retentionSize) + e  *)
(* units, so that e is the rounding error gathered so far and the numbers  *)
(* stay small.  The doubles between 2^52 and 2^53 units are 1 unit apart,  *)
(* up to 2^54 2 units, up to 2^55 4 units, up to 2^56 8 units and from     *)
(* 2^56 (the double 1) on 16 units; below 2^53 units every whole number of *)
(* units is a double.  For retentionSize = 10:  2^55 = 5 * step - 2 units  *)
(* and 2^56 = 10 * step - 4 units.                                         *)
(***************************************************************************)
Double(k, e) == [k |-> k, e |-> e]

\* the double 1 / n, in units of 2^-56, modulo 32
stepMod32(n) == IF n = 10 THEN 26 ELSE 0

\* the distance, in units of 2^-56, between the doubles around the real
\* number k * (1 / n) + e
spacing(n, k, e) ==
    IF n = 10
    THEN CASE k <= 1 -> 1
           [] k = 2  -> 2
           [] k \in {3, 4} -> 4
           [] k = 5  -> IF e >= -2 THEN 8 ELSE 4
           [] k \in 6..9 -> 8
           [] k = 10 -> IF e >= -4 THEN 16 ELSE 8
           [] OTHER  -> 16
    ELSE CASE k <= 0 -> 1
           [] k = 1  -> 4
           [] k \in {2, 3} -> 8
           [] OTHER  -> 16

\* the double nearest to the real number k * (1 / n) + e, ties to the even one
roundToDouble(n, k, e) ==
    LET p    == spacing(n, k, e)
        low  == (stepMod32(n) * k + e) % p
        odd  == ((stepMod32(n) * k + e) % (2 * p)) - low # 0
        down == 2 * low < p \/ (2 * low = p /\ ~odd)
    IN  Double(k, IF down THEN e - low ELSE e + (p - low))

\* x - (1 / this.retentionSize)
minusStep(x) == roundToDouble(retentionSize, x.k - 1, x.e)

\* x + (1 / this.retentionSize)
plusStep(x) == roundToDouble(retentionSize, x.k + 1, x.e)

\* x >= y, for doubles
atLeast(x, y) == x.k > y.k \/ (x.k = y.k /\ x.e >= y.e)

\* update(failed)
update(failed) ==
    LET removed == Head(failureRetention)
        shifted == Append(Tail(failureRetention), IF failed THEN "failed" ELSE "ok")
        lowered == IF removed = "failed" THEN minusStep(retentionFailureRate)
                                         ELSE retentionFailureRate
        rate    == IF failed THEN plusStep(lowered) ELSE lowered
    IN  IF atLeast(rate, threshold)
        THEN \* open()
             /\ state' = "Open"
             /\ failureRetention' = nullRetention
             /\ retentionFailureRate' = Double(0, 0)
             /\ timeoutEnd' = now + timeout
        ELSE /\ failureRetention' = shifted
             /\ retentionFailureRate' = rate
             /\ timeoutEnd' = timeoutEnd
             /\ state' = IF removed # "null" /\ state = "HalfOpen" THEN "Closed" ELSE state

\* the promise of the callback settles: .then or .catch of invoke
callbackSettles(i) ==
    /\ invocations[i].pc = "calling"
    /\ \E failed \in BOOLEAN :
         /\ update(failed)
         /\ invocations' = [invocations EXCEPT ![i].pc =
                              IF failed THEN "rejectedCallback" ELSE "resolved"]
    /\ UNCHANGED <<retentionSize, threshold, holdInvocations, now>>
    /\ UNCHANGED <<aggVars, wbVars>>

\* time passes: until MaxTime, and after it for as long as a timer is running
tick ==
    /\ \/ now < MaxTime
       \/ \E i \in 1..MaxInvocations :
            invocations[i].pc = "held" /\ invocations[i].wake > now
    /\ now' = now + 1
    /\ UNCHANGED <<retentionSize, threshold, holdInvocations, state, failureRetention,
                   retentionFailureRate,
                   timeoutEnd, invocations>>
    /\ UNCHANGED <<aggVars, wbVars>>

\* the instance after its constructor
CBConstructed ==
    /\ state = "Closed"
    /\ failureRetention = nullRetention
    /\ retentionFailureRate = Double(0, 0)
    /\ timeoutEnd = 0
    /\ now = 0
    /\ invocations = [i \in 1..MaxInvocations |-> NoInvocation]

(***************************************************************************)
(* WriteBuffer.                                                            *)
(***************************************************************************)
\* params(): the request holds a copy of the buffer
params == buffer

\* this.dynamoDbInstance.batchWriteItem(params, callback) of flush, on buffer b
sendBatch(b, origin) ==
    /\ pending' = Append(pending, [items |-> b, origin |-> origin])
    /\ largestBatch' = IF Len(b) > largestBatch THEN Len(b) ELSE largestBatch

\* put(requestItem, onFlush), up to the await of flush
put ==
    /\ putCount < MaxPuts
    /\ putCount' = putCount + 1
    /\ buffer' = Append(buffer, putCount + 1)
    /\ IF Len(buffer) + 1 = maxWriteBatchSize
       THEN /\ Len(pending) < MaxPending
            /\ sendBatch(Append(buffer, putCount + 1), "put")
       ELSE UNCHANGED <<pending, largestBatch>>
    /\ UNCHANGED <<written, onFlushCalls, lastError>>
    /\ UNCHANGED <<aggVars, cbVars>>

\* flush(), called by the user, up to its await
flush ==
    /\ Len(buffer) > 0
    /\ Len(pending) < MaxPending
    /\ sendBatch(params, "flush")
    /\ UNCHANGED <<buffer, putCount, written, onFlushCalls, lastError>>
    /\ UNCHANGED <<aggVars, cbVars>>

Without(seq, j) == [k \in 1..(Len(seq) - 1) |-> IF k < j THEN seq[k] ELSE seq[k + 1]]

\* a bug: onFlush is called after every flush, the user's own included
onFlushAlways(origin) == onFlushCalls + 1

\* put resumes after its await of flush and calls onFlush; a flush the user
\* called has no onFlush
onFlushAfter(origin) == IF origin = "put" THEN onFlushCalls + 1 ELSE onFlushCalls

\* the callback of batchWriteItem runs without an error
writeSucceeds ==
    \E j \in 1..Len(pending) :
        /\ buffer' = <<>>
        /\ written' = written \cup {pending[j].items[k] : k \in 1..Len(pending[j].items)}
        /\ onFlushCalls' = onFlushAfter(pending[j].origin)
        /\ pending' = Without(pending, j)
        /\ lastError' = FALSE
        /\ UNCHANGED <<putCount, largestBatch>>
        /\ UNCHANGED <<aggVars, cbVars>>

\* the callback of batchWriteItem runs with an error: flush rejects
writeFails ==
    \E j \in 1..Len(pending) :
        /\ pending' = Without(pending, j)
        /\ lastError' = TRUE
        /\ UNCHANGED <<buffer, putCount, written, largestBatch, onFlushCalls>>
        /\ UNCHANGED <<aggVars, cbVars>>

\* the instance after its constructor
WBConstructed ==
    /\ buffer = <<>>
    /\ pending = <<>>
    /\ putCount = 0
    /\ written = {}
    /\ largestBatch = 0
    /\ onFlushCalls = 0
    /\ lastError = FALSE

(***************************************************************************)
(* Specifications.                                                         *)
(***************************************************************************)
InitLocals ==
    /\ output = <<>>
    /\ nodeValues = <<>>
    /\ redBlackTree = EmptyTree
    /\ iterator = 1
    /\ ret = NoRet
    /\ calls = <<>>
    /\ refItems = <<>>
    /\ refRet = NoRet
    /\ failedBefore = FALSE

InitCallbacks == \E c \in CallbackConfigs : aggFailSizes = c[1] /\ fmtFailStarts = c[2]

\* an Aggregator nobody calls
AggUnused ==
    /\ aggFailSizes = {}
    /\ fmtFailStarts = {}
    /\ items = <<>>
    /\ pc = "idle"
    /\ phase = "single"
    /\ InitLocals

\* new CircuitBreaker(timeout, 4, 0.5)
Quarters == retentionSize = 4 /\ threshold = Double(2, 0)

\* new CircuitBreaker(timeout, 10, 1): the double 1 is 10 * (1 / 10) - 4 units
Tenths == retentionSize = 10 /\ threshold = Double(10, -4)

\* a CircuitBreaker nobody calls
CBUnused == Quarters /\ holdInvocations = TRUE /\ CBConstructed

\* one call of aggregate on any input, on any of the instances
InitAgg ==
    /\ InitCallbacks
    /\ items \in Inputs
    /\ pc = "called"
    /\ phase = "single"
    /\ InitLocals
    /\ CBUnused
    /\ WBConstructed

NextAgg == aggregateEnter \/ scanStep \/ aggregateReturn

SpecAgg == InitAgg /\ [][NextAgg]_vars

\* three calls on one instance: any input, any input, the first input again
InitCalls ==
    /\ InitCallbacks
    /\ items = <<>>
    /\ pc = "idle"
    /\ phase = "first"
    /\ InitLocals
    /\ CBUnused
    /\ WBConstructed

NextCalls == aggregateAny \/ aggregateRepeat \/ scanStep \/ aggregateReturn

SpecCalls == InitCalls /\ [][NextCalls]_vars

\* a CircuitBreaker, with either setting of holdInvocations, invoked concurrently
InitCB ==
    /\ Quarters
    /\ holdInvocations \in BOOLEAN
    /\ CBConstructed
    /\ AggUnused
    /\ WBConstructed

NextCB ==
    \/ \E i \in 1..MaxInvocations : invoke(i)
    \/ \E i \in 1..MaxInvocations : timerFires(i)
    \/ \E i \in 1..MaxInvocations : callbackSettles(i)
    \/ tick

SpecCB == InitCB /\ [][NextCB]_vars

\* the same where the clock advances, a timer that is due fires and the
\* promise of a callback settles
FairCB ==
    /\ WF_vars(tick)
    /\ \A i \in 1..MaxInvocations : WF_vars(timerFires(i))
    /\ \A i \in 1..MaxInvocations : WF_vars(callbackSettles(i))

SpecCBFair == InitCB /\ [][NextCB]_vars /\ FairCB

\* the same, for either of the two instances
InitCBSizes ==
    /\ Quarters \/ Tenths
    /\ holdInvocations \in BOOLEAN
    /\ CBConstructed
    /\ AggUnused
    /\ WBConstructed

SpecCBSizes == InitCBSizes /\ [][NextCB]_vars

\* a WriteBuffer whose put and flush are called in any interleaving
InitWB ==
    /\ WBConstructed
    /\ AggUnused
    /\ CBUnused

NextWB == put \/ flush \/ writeSucceeds \/ writeFails

SpecWB == InitWB /\ [][NextWB]_vars

\* a WriteBuffer whose caller awaits each call before making the next
putAwaited == pending = <<>> /\ put

flushAwaited == pending = <<>> /\ flush

NextWBAwaited == putAwaited \/ flushAwaited \/ writeSucceeds \/ writeFails

SpecWBAwaited == InitWB /\ [][NextWBAwaited]_vars

\* the same caller, with a database whose every write succeeds
NextWBAwaitedOk == putAwaited \/ flushAwaited \/ writeSucceeds

SpecWBAwaitedOk == InitWB /\ [][NextWBAwaitedOk]_vars

(***************************************************************************)
(* Aggregator: the vocabulary of the claims, taken from the input alone.   *)
(***************************************************************************)
Blk(i) == itemPreProcessor(items[i])

\* every block of the input has start < end
ValidInput == \A i \in 1..Len(items) : Blk(i).start < Blk(i).end

\* the items whose range [start, end) contains the point p
Covering(p) == {i \in 1..Len(items) : Blk(i).start <= p /\ p < Blk(i).end}

\* some input range contains the whole of [a, b)
SpanCovered(a, b) == \E i \in 1..Len(items) : Blk(i).start <= a /\ a < b /\ b <= Blk(i).end

\* the event keys of the input, ascending
EventKeys ==
    SortedKeys({Blk(i).start : i \in 1..Len(items)} \cup {Blk(i).end : i \in 1..Len(items)})

Count(v, s) == Cardinality({j \in 1..Len(s) : s[j] = v})

Returned == pc = "returned"

\* the returned blocks whose [from, to) contains p
BlocksAt(p) == {k \in 1..Len(ret.value) : ret.value[k].from <= p /\ p < ret.value[k].to}

\* C1: for an input of well-formed blocks, every point covered by an input range
\* lies in exactly one returned block, and that block's value is the aggregation
\* of exactly the payloads of the ranges containing the point (half-open ranges).
C1_CoverageComplete ==
    (Returned /\ ValidInput) =>
        \A p \in 0..MaxCoord :
            Covering(p) # {} =>
                /\ Cardinality(BlocksAt(p)) = 1
                /\ \A k \in BlocksAt(p) :
                     /\ Len(ret.value[k].agg) = Cardinality(Covering(p))
                     /\ \A v \in Payloads :
                          Count(v, ret.value[k].agg)
                            = Cardinality({i \in Covering(p) : Blk(i).value = v})

\* two partially overlapping ranges, the first ending inside the second
C1_Witness ==
    /\ Returned
    /\ ValidInput
    /\ Len(items) = 2
    /\ Blk(1).start < Blk(2).start
    /\ Blk(2).start < Blk(1).end
    /\ Blk(1).end < Blk(2).end
    /\ Len(ret.value) = 3

\* C2: for an input of well-formed blocks no returned block covers a sub-range
\* that no input range covers: each lies inside an input range, every point of
\* it is covered, and the empty input returns the empty sequence.
C2_NoSpuriousSpans ==
    (Returned /\ ValidInput) =>
        /\ \A k \in 1..Len(ret.value) :
             /\ SpanCovered(ret.value[k].from, ret.value[k].to)
             /\ \A p \in ret.value[k].from..(ret.value[k].to - 1) : Covering(p) # {}
        /\ (items = <<>> => ret.value = <<>>)

\* two disjoint ranges with a gap between them, and no block over the gap
C2_Witness ==
    /\ Returned
    /\ ValidInput
    /\ Len(items) = 2
    /\ Blk(1).end < Blk(2).start
    /\ Len(ret.value) = 2
    /\ ret.value[1].to < ret.value[2].from

\* C3: for every input (degenerate and inverted blocks included) the returned
\* blocks are strictly ascending and disjoint, and two consecutive key-to-key
\* sub-ranges that are both covered give two contiguous returned blocks.
C3_Ordering ==
    Returned =>
        /\ \A k \in 1..Len(ret.value) : ret.value[k].from < ret.value[k].to
        /\ \A k \in 1..(Len(ret.value) - 1) : ret.value[k].to <= ret.value[k + 1].from
        /\ \A n \in 1..(Len(EventKeys) - 2) :
             (/\ SpanCovered(EventKeys[n], EventKeys[n + 1])
              /\ SpanCovered(EventKeys[n + 1], EventKeys[n + 2]))
             => \E k \in 1..(Len(ret.value) - 1) :
                  /\ ret.value[k].from = EventKeys[n]
                  /\ ret.value[k].to = EventKeys[n + 1]
                  /\ ret.value[k + 1].from = EventKeys[n + 1]
                  /\ ret.value[k + 1].to = EventKeys[n + 2]

\* an input with a malformed block whose output still has two contiguous blocks
C3_Witness ==
    /\ Returned
    /\ ~ValidInput
    /\ Len(ret.value) >= 2
    /\ ret.value[1].to = ret.value[2].from
    /\ SpanCovered(ret.value[1].from, ret.value[1].to)
    /\ SpanCovered(ret.value[2].from, ret.value[2].to)

\* the ids in the active set when the k-th block was aggregated
IdsOfBlock(k) == calls[2 * k].ids

\* C4: for an input of well-formed blocks every returned block is a maximal
\* sub-range with a constant set of covering blocks, and two contiguous returned
\* blocks were aggregated from different sets of active ids.
C4_Minimal ==
    (Returned /\ ValidInput) =>
        /\ \A k \in 1..Len(ret.value) :
             /\ \A p \in ret.value[k].from..(ret.value[k].to - 1) :
                  Covering(p) = Covering(ret.value[k].from)
             /\ Covering(ret.value[k].from - 1) # Covering(ret.value[k].from)
             /\ Covering(ret.value[k].to) # Covering(ret.value[k].from)
        /\ \A k \in 1..(Len(ret.value) - 1) :
             ret.value[k].to = ret.value[k + 1].from => IdsOfBlock(k) # IdsOfBlock(k + 1)

\* a range nested in another: three contiguous blocks, each a maximal span
C4_Witness ==
    /\ Returned
    /\ ValidInput
    /\ Len(ret.value) = 3
    /\ ret.value[1].to = ret.value[2].from
    /\ ret.value[2].to = ret.value[3].from
    /\ IdsOfBlock(1) = IdsOfBlock(3)
    /\ \E k \in 1..3 : ret.value[k].to - ret.value[k].from >= 1

\* the results itemPostProcessor gave in the running call, in call order
RECURSIVE FormatterResults(_)
FormatterResults(log) ==
    IF log = <<>> THEN <<>>
    ELSE IF Head(log).fn = "itemPostProcessor" /\ ~Head(log).threw
    THEN <<itemPostProcessor(Head(log).arg)>> \o FormatterResults(Tail(log))
    ELSE FormatterResults(Tail(log))

\* C5: when a callback throws, the call ends there with the error and the
\* caller receives no block; and a call made after a failed one holds nothing
\* of it: its output is made of its own formatter results only.
C5_FailurePropagates ==
    /\ (\E j \in 1..Len(calls) : calls[j].threw) =>
          /\ pc = "threw"
          /\ ret = [kind |-> "error", value |-> <<>>]
          /\ calls[Len(calls)].threw
    /\ (pc = "threw") => (ret.kind = "error" /\ ret.value = <<>>)
    /\ failedBefore => output = FormatterResults(calls)
    /\ (failedBefore /\ pc = "returned") => ret.value = FormatterResults(calls)

\* the first call threw after it had produced a block, and so did its repetition
C5_Witness ==
    /\ failedBefore
    /\ refRet.kind = "error"
    /\ phase = "done"
    /\ pc = "threw"
    /\ Len(output) >= 1

\* C6: the callbacks are invoked in pairs, aggregationFunction once and then
\* itemPostProcessor once on its result, span after span in ascending order,
\* never for an empty active set; the returned sequence holds the formatter
\* results in that order.
C6_CallbackOrder ==
    /\ \A j \in 1..Len(calls) :
         IF j % 2 = 1
         THEN /\ calls[j].fn = "aggregationFunction"
              /\ calls[j].arg # <<>>
              /\ calls[j].ids # {}
              /\ (j < Len(calls) => ~calls[j].threw)
         ELSE /\ calls[j].fn = "itemPostProcessor"
              /\ calls[j].arg.value = aggregationFunction(calls[j - 1].arg)
              /\ calls[j].ids = calls[j - 1].ids
              /\ calls[j].arg.start < calls[j].arg.end
              /\ (j < Len(calls) => ~calls[j].threw)
              /\ (j > 2 => calls[j - 2].arg.end <= calls[j].arg.start)
    /\ (pc = "scan" /\ Len(calls) % 2 = 0) => output = FormatterResults(calls)
    /\ Returned =>
         /\ Len(calls) = 2 * Len(ret.value)
         /\ \A k \in 1..Len(ret.value) : ret.value[k] = itemPostProcessor(calls[2 * k].arg)
    /\ (Returned /\ ValidInput) =>
         \A n \in 1..(Len(EventKeys) - 1) :
            Cardinality({j \in 1..Len(calls) :
                            /\ calls[j].fn = "itemPostProcessor"
                            /\ calls[j].arg.start = EventKeys[n]}) =
               (IF Covering(EventKeys[n]) = {} THEN 0 ELSE 1)

\* a call over two ranges with a gap: two pairs of invocations, none for the gap
C6_Witness ==
    /\ Returned
    /\ ValidInput
    /\ Len(calls) = 4
    /\ calls[2].arg.end < calls[4].arg.start
    /\ Len(EventKeys) = 4

\* C7: the same input given again to the same instance, after any other call,
\* gives the caller what the first call gave it.
C7_Idempotent ==
    (phase = "done" /\ pc \in {"returned", "threw"}) => (items = refItems /\ ret = refRet)

\* the first input returned blocks, another call was made, and it returned again
C7_Witness ==
    /\ phase = "done"
    /\ pc = "returned"
    /\ Len(ret.value) >= 2
    /\ Len(nodeValues) >= 1

\* a step of the scan: the iterator moves on from the key it has processed
ScanAdvances == pc = "scan" /\ iterator' = iterator + 1

\* a step of the scan after which the active set is not empty, the arrivals and
\* then the departures of the key applied, and whose aggregation does not throw
SpanOpens ==
    /\ ScanAdvances
    /\ nodeValues' # <<>>
    /\ ~aggregationThrows(MapValues(nodeValues'))

\* the step hands the post-processor the block from a to b, whose value is the
\* aggregate of the active set as the step leaves it
Emits(a, b) ==
    /\ Len(calls') = Len(calls) + 2
    /\ calls'[Len(calls')].fn = "itemPostProcessor"
    /\ calls'[Len(calls')].arg =
          [start |-> a, end |-> b, value |-> aggregationFunction(MapValues(nodeValues'))]

\* C14, as stated: for every event key k other than the first, if the active
\* set is not empty after the arrivals and then the departures of k, the block
\* emitted is {start: the key before k, end: k, value: the aggregate of that
\* active set}.
C14_EmitsPreviousSpan ==
    [][(SpanOpens /\ iterator > 1) =>
          Emits(EventKeys[iterator - 1], EventKeys[iterator])]_vars

\* C14, amended: for every event key k other than the last, if the active set
\* is not empty after the arrivals and then the departures of k, the block
\* emitted is {start: k, end: the key after k, value: the aggregate of that
\* active set}; the last key is never processed.
C14_EmitsNextSpan ==
    /\ [][SpanOpens => Emits(EventKeys[iterator], EventKeys[iterator + 1])]_vars
    /\ [][ScanAdvances => iterator < Len(EventKeys)]_vars

\* the scan has processed the first two of at least three keys, and the second
\* opened the span from the second key to the third
C14_Witness ==
    /\ pc = "scan"
    /\ iterator = 3
    /\ Len(EventKeys) >= 3
    /\ nodeValues # <<>>
    /\ calls # <<>>
    /\ calls[Len(calls)].fn = "itemPostProcessor"
    /\ calls[Len(calls)].arg.start = EventKeys[2]
    /\ calls[Len(calls)].arg.end = EventKeys[3]
    /\ calls[Len(calls)].arg.value = MapValues(nodeValues)

RECURSIVE scanOutput(_, _, _, _, _)
\* the while loop of aggregate from position pos of the keys, as a function,
\* for callbacks that do not throw
scanOutput(tree, keys, pos, active, out) ==
    IF pos >= Len(keys) THEN out
    ELSE LET after == afterNode(active, tree[keys[pos]])
             block == [start |-> keys[pos], end |-> keys[pos + 1],
                       value |-> aggregationFunction(MapValues(after))]
         IN  scanOutput(tree, keys, pos + 1, after,
                        IF skipSpan(after) THEN out
                        ELSE Append(out, itemPostProcessor(block)))

\* what aggregate(its) returns when no callback throws
OutputFor(its) ==
    LET tree == createRedBlackTree(its)
    IN  scanOutput(tree, SortedKeys(DOMAIN tree), 1, <<>>, <<>>)

\* the callbacks of the instance never throw
CallbacksTotal == aggFailSizes = {} /\ fmtFailStarts = {}

\* item j is a degenerate block and every other item a valid one
DegenerateAt(j) ==
    /\ Blk(j).start = Blk(j).end
    /\ \A i \in 1..Len(items) : i # j => Blk(i).start < Blk(i).end

RECURSIVE SplitAt(_, _)
\* the blocks of out, the one that has c strictly inside cut in two at c
SplitAt(out, c) ==
    IF out = <<>> THEN <<>>
    ELSE LET b == Head(out)
         IN  (IF b.from < c /\ c < b.to
              THEN <<[b EXCEPT !.to = c], [b EXCEPT !.from = c]>>
              ELSE <<b>>) \o SplitAt(Tail(out), c)

\* C15, as stated: a degenerate block added to an input of valid blocks raises
\* no error and leaves the returned sequence identical to the one for the input
\* without it.
C15_DegenerateInert ==
    \A j \in 1..Len(items) :
        (CallbacksTotal /\ DegenerateAt(j)) =>
            /\ pc # "threw"
            /\ Returned => ret.value = OutputFor(Without(items, j))

\* C15, amended: a degenerate block added to an input of valid blocks raises
\* no error and changes neither the points covered nor the value at any point;
\* its coordinate is an event key, though: the returned sequence is the one for
\* the input without it, except that a block with that coordinate strictly
\* inside is returned as two adjacent blocks of the same value, cut there.
C15_DegenerateSplits ==
    \A j \in 1..Len(items) :
        (CallbacksTotal /\ DegenerateAt(j)) =>
            /\ pc # "threw"
            /\ Returned =>
                  ret.value = SplitAt(OutputFor(Without(items, j)), Blk(j).start)

\* a call with a degenerate block inside the only valid block has returned two
\* blocks where the valid block alone gives one
C15_Witness ==
    /\ Returned
    /\ CallbacksTotal
    /\ \E j \in 1..Len(items) :
         /\ DegenerateAt(j)
         /\ Len(OutputFor(Without(items, j))) = 1
         /\ Len(ret.value) = 2
         /\ ret.value[1].to = Blk(j).start
         /\ ret.value[2].from = Blk(j).start
         /\ ret.value[1].agg = ret.value[2].agg

\* the id x comes before the id y: its block starts earlier, or at the same
\* coordinate and it is earlier in the input
Before(x, y) ==
    \/ Blk(x + 1).start < Blk(y + 1).start
    \/ Blk(x + 1).start = Blk(y + 1).start /\ x < y

RECURSIVE PayloadsInOrder(_)
\* the payloads of the blocks with the ids S, one each, in that order
PayloadsInOrder(S) ==
    IF S = {} THEN <<>>
    ELSE LET x == CHOOSE x \in S : \A y \in S \ {x} : Before(x, y)
         IN  <<Blk(x + 1).value>> \o PayloadsInOrder(S \ {x})

\* C16: the aggregation function receives one payload per active block, equal
\* payloads kept, ascending by the start of the block and, among blocks with the
\* same start, by the position of the item in the input; for well-formed
\* blocks the active blocks are the ones that cover the span.
C16_PayloadOrder ==
    \A j \in 1..Len(calls) :
        calls[j].fn = "aggregationFunction" =>
            /\ calls[j].arg = PayloadsInOrder(calls[j].ids)
            /\ (ValidInput /\ j < Len(calls)) =>
                  calls[j].ids = {i - 1 : i \in Covering(calls[j + 1].arg.start)}

\* the aggregation function was given the payloads of two blocks in the order
\* of their starts, where the input has the blocks the other way round
C16_Witness ==
    /\ ValidInput
    /\ Len(items) = 2
    /\ Blk(1).start > Blk(2).start
    /\ Blk(1).value # Blk(2).value
    /\ \E j \in 1..Len(calls) :
         /\ calls[j].fn = "aggregationFunction"
         /\ calls[j].ids = {0, 1}
         /\ calls[j].arg = <<Blk(2).value, Blk(1).value>>

\* createRedBlackTree has run on the input of the call
TreeBuilt == pc \in {"scan", "returned", "threw"}

\* C17: once createRedBlackTree has processed the items, the keys of the tree
\* are exactly the starts and the ends of the blocks; for every ordinal i the
\* pair (i, payload of item i) is exactly once in the arrival list of the node
\* at the start of item i and i exactly once in the departure list of the node
\* at its end, however many items share a coordinate; and the lists hold
\* nothing else.
C17_IndexComplete ==
    TreeBuilt =>
        /\ DOMAIN redBlackTree = {Blk(i).start : i \in 1..Len(items)}
                                   \cup {Blk(i).end : i \in 1..Len(items)}
        /\ \A i \in 1..Len(items) :
             /\ Count(<<i - 1, Blk(i).value>>, redBlackTree[Blk(i).start].start) = 1
             /\ Count(i - 1, redBlackTree[Blk(i).end].end) = 1
        /\ \A k \in DOMAIN redBlackTree :
             /\ Len(redBlackTree[k].start) =
                    Cardinality({i \in 1..Len(items) : Blk(i).start = k})
             /\ Len(redBlackTree[k].end) =
                    Cardinality({i \in 1..Len(items) : Blk(i).end = k})

\* the tree of two items that start at one coordinate, which is also the end
\* of a third or of one of the two, has been built
C17_Witness ==
    /\ TreeBuilt
    /\ \E k \in DOMAIN redBlackTree :
         /\ Len(redBlackTree[k].start) = 2
         /\ redBlackTree[k].start[1][1] = 0
         /\ redBlackTree[k].start[2][1] = 1
         /\ redBlackTree[k].end # <<>>

(***************************************************************************)
(* CircuitBreaker: claims.                                                 *)
(***************************************************************************)
\* C8: an invoke made while Open, before the timeout is over and with
\* holdInvocations false, is rejected with 'Circuit breaker is open', its
\* callback is not called, and the state, the window, the rate and timeoutEnd
\* stay as they were.
C8_RejectsWhileOpen ==
    [][\A i \in 1..MaxInvocations :
          (invoke(i) /\ state = "Open" /\ timeoutEnd - now > 0 /\ ~holdInvocations) =>
              /\ invocations'[i].pc = "rejectedOpen"
              /\ invocations'[i].ran = 0
              /\ \A j \in 1..MaxInvocations : j # i => invocations'[j] = invocations[j]
              /\ state' = "Open"
              /\ failureRetention' = failureRetention
              /\ retentionFailureRate' = retentionFailureRate
              /\ timeoutEnd' = timeoutEnd]_vars

\* an invocation was rejected by the open breaker, which is still Open with
\* time left on its timeout
C8_Witness ==
    /\ ~holdInvocations
    /\ state = "Open"
    /\ timeoutEnd - now > 0
    /\ \E i \in 1..MaxInvocations : invocations[i].pc = "rejectedOpen"

\* the double 1 / n minus the real number 1 / n, in tenths of a unit of 2^-56
stepError(n) == IF n = 10 THEN 4 ELSE 0

\* the failure rate of the window w, the real number
\* (failures in w) / retentionSize, is at or above the threshold
WindowAtThreshold(w) ==
    LET failures == Count("failed", w)
    IN  \/ failures > threshold.k
        \/ /\ failures = threshold.k
           /\ 10 * threshold.e + stepError(retentionSize) * failures <= 0

\* the window once the outcome of invocation i is recorded in it
RecordedWindow(i) ==
    Append(Tail(failureRetention),
           IF invocations'[i].pc = "rejectedCallback" THEN "failed" ELSE "ok")

\* C12: whenever recording an outcome brings the failure rate of the window to
\* or above the threshold, the state becomes Open, the window all null, the
\* rate 0 and timeoutEnd the current time plus timeout; so between operations
\* the failure rate of the window is below the threshold.
C12_OpensAtThreshold ==
    /\ [](~WindowAtThreshold(failureRetention))
    /\ [][\A i \in 1..MaxInvocations :
            (callbackSettles(i) /\ WindowAtThreshold(RecordedWindow(i))) =>
                /\ state' = "Open"
                /\ failureRetention' = nullRetention
                /\ retentionFailureRate' = Double(0, 0)
                /\ timeoutEnd' = now + timeout]_vars

\* C13: with holdInvocations true no call is rejected with 'Circuit breaker is
\* open'; a call made while Open is held, its callback is called once its timer
\* has fired, exactly once, and the call then resolves or rejects as the
\* callback did.
C13_HoldsWhileOpen ==
    /\ [](holdInvocations =>
            \A i \in 1..MaxInvocations :
                /\ invocations[i].pc # "rejectedOpen"
                /\ invocations[i].pc = "held" => invocations[i].ran = 0
                /\ invocations[i].pc \in {"calling", "resolved", "rejectedCallback"}
                       => invocations[i].ran = 1)
    /\ [][\A i \in 1..MaxInvocations :
            (holdInvocations /\ invoke(i) /\ state = "Open") =>
                invocations'[i].pc = "held"]_vars
    /\ \A i \in 1..MaxInvocations :
           (holdInvocations /\ invocations[i].pc = "held")
              ~> (invocations[i].pc = "calling")
    /\ \A i \in 1..MaxInvocations :
           (holdInvocations /\ invocations[i].pc = "calling")
              ~> (invocations[i].pc \in {"resolved", "rejectedCallback"})

\* a call made while the breaker is Open, with time left on the timeout, is
\* being held, and an earlier call has run its callback once
C13_Witness ==
    /\ holdInvocations
    /\ state = "Open"
    /\ timeoutEnd - now > 0
    /\ \E i, j \in 1..MaxInvocations :
         /\ invocations[i].pc = "held"
         /\ invocations[j].pc = "rejectedCallback"
         /\ invocations[j].ran = 1

(***************************************************************************)
(* WriteBuffer: claims.                                                    *)
(***************************************************************************)
\* C9: no batchWriteItem call holds more than maxWriteBatchSize items.
C9_BatchWithinMax == largestBatch <= maxWriteBatchSize

\* the items passed to put so far
PutItems == 1..putCount

InBuffer(x) == \E k \in 1..Len(buffer) : buffer[k] = x

\* C10: every item passed to put is still in the buffer or was part of a
\* batchWriteItem call that succeeded.
C10_NoItemLost == \A x \in PutItems : InBuffer(x) \/ x \in written

\* the step is the start of a put / the success of the write a put triggered
PutStep == putCount' = putCount + 1
PutFlushDone == Len(pending) = 1 /\ pending' = <<>> /\ pending[1].origin = "put"

\* C11: with calls made one at a time and every write succeeding, a put sends
\* the buffer exactly when it brings its length to maxWriteBatchSize, the
\* length is below maxWriteBatchSize after every completed call, and onFlush
\* is called once per flush a put triggered, when its write has succeeded and
\* the buffer is cleared, and at no other step.
C11_PutFlushesWhenFull ==
    /\ [](pending = <<>> => Len(buffer) < maxWriteBatchSize)
    /\ [][/\ PutStep =>
               /\ buffer' = Append(buffer, putCount')
               /\ (Len(buffer') = maxWriteBatchSize) <=> (Len(pending') = 1)
               /\ Len(pending') = 1 =>
                    pending'[1] = [items |-> buffer', origin |-> "put"]
          /\ PutFlushDone =>
               /\ onFlushCalls' = onFlushCalls + 1
               /\ buffer' = <<>>
               /\ \A k \in 1..Len(pending[1].items) : pending[1].items[k] \in written'
          /\ ~PutFlushDone => onFlushCalls' = onFlushCalls]_vars

\* two puts filled the buffer and had it flushed, the user flushed a single
\* item, and one more item waits in the buffer
C11_Witness ==
    /\ pending = <<>>
    /\ onFlushCalls = 2
    /\ putCount = 6
    /\ Len(buffer) = 1
    /\ written = 1..5

====
